---- MODULE Spec2Model ----
(***************************************************************************)
(* Model of hmcfgusb.c, the libusb driver for the HM-CFG-USB adapter.      *)
(*                                                                         *)
(* One process, one handle at a time.  The state is the fields of          *)
(* struct hmcfgusb_dev, the file-scope quit flag, the libusb objects the   *)
(* driver owns (device connection, claimed interface, receive transfer)    *)
(* and the result (return value, errno) of the last call.  The library     *)
(* and the operating system are the environment: every answer they give    *)
(* (error codes, completion status, poll readiness, allocation results)    *)
(* is an input chosen with \E.                                             *)
(*                                                                         *)
(* hmcfgusb_poll is modelled in two steps because the completion handler   *)
(* hmcfgusb_interrupt runs inside libusb_handle_events_timeout_completed:  *)
(* hmcfgusb_poll (lines 358-400) either returns or moves to pc = "events", *)
(* where hmcfgusb_interrupt runs once per finished transfer (any number of *)
(* times), and handle_events_return (lines 404-418) ends the call.  While  *)
(* pc = "events" no other operation is enabled (single-threaded caller).   *)
(***************************************************************************)
EXTENDS Integers, Sequences, FiniteSets

VARIABLES
    h,          \* the handle: "none" (never opened), "open", "closed", "crashed"
    cb,         \* cb_data->cb is non-NULL
    quit,       \* static int quit
    transfer,   \* dev->transfer: "NULL" or "PTR"
    xfer,       \* the transfer object: "none", "submitted", "freed", "cancelled"
    usb_devh,   \* the handle's device connection: "none", "open", "closed"
    claimed,    \* the handle's connection holds the interface
    leak,       \* what failed hmcfgusb_init calls left acquired
    pfd,        \* dev->pfd: sequence of [fd, events, revents]
    pfdNull,    \* dev->pfd == NULL
    n_usb_pfd,  \* dev->n_usb_pfd
    n_pfd,      \* dev->n_pfd
    pc,         \* "idle", or "events" inside libusb_handle_events_timeout_completed
    op,         \* the last operation called
    ret,        \* its return value
    errno,      \* errno after it
    call,       \* the environment's answers in the current/last hmcfgusb_poll
    intr,       \* the last run of hmcfgusb_interrupt in this hmcfgusb_poll
    fatal,      \* a fatal cause hit the receive engine since the last open
    sent,       \* the last hmcfgusb_send: its arguments and the transfers it issued
    clog        \* library calls made by the last hmcfgusb_close (kept until the
                \* first call on the next handle)

vars == <<h, cb, quit, transfer, xfer, usb_devh, claimed, leak, pfd, pfdNull,
          n_usb_pfd, n_pfd, pc, op, ret, errno, call, intr, fatal,
          sent, clog>>

----------------------------------------------------------------------------
(* Program constants *)

EIO == 5
POLLIN == 1
POLLOUT == 4
POLLERR == 8

(* Bounds of the model *)

MaxPfd == 3           \* dev->n_pfd stays <= MaxPfd
MaxTouts == 2         \* intr.touts counts consecutive timeouts up to MaxTouts

UsbCounts == {1, 2}   \* how many descriptors libusb_get_pollfds reports
Statuses == {"COMPLETED", "TIMED_OUT", "ERROR"}
Lens == {0, 12}
(* What the caller registers with its k-th hmcfgusb_add_pfd call: distinct *)
(* descriptors 7, 8, ..., none of them libusb's, with alternating interest *)
(* masks.  The code stores fd and events without looking at them.          *)
ExtPfd(k) == [fd |-> 6 + k, events |-> IF k % 2 = 1 THEN POLLIN ELSE POLLOUT]
Timeouts == {0, 1}
Tvs == { [sec |-> 0, usec |-> 0], [sec |-> 0, usec |-> 500000],
         [sec |-> 2, usec |-> 0] }

NoSent == [len |-> 0, done |-> FALSE, xfers |-> <<>>, oks |-> <<>>]
NoLeak == [conn |-> FALSE, claim |-> FALSE, xfer |-> FALSE]
NoCall == [timeout |-> 0, nt |-> 0, tv |-> [sec |-> 0, usec |-> 0],
           polled |-> FALSE, bound |-> 0, perr |-> FALSE,
           he |-> 0, quit0 |-> 0, stale |-> FALSE]
NoIntr == [status |-> "none", touts |-> 0, len |-> 0, cbres |-> TRUE,
           subres |-> TRUE, log |-> <<>>, cblen |-> -1, quit0 |-> 0]

(* The descriptors libusb_get_pollfds reports: fds 3.., interest POLLIN    *)
(* for the first and POLLOUT for the others.                               *)
UsbPfds(n) == [i \in 1..n |-> [fd |-> i + 2,
                               events |-> IF i = 1 THEN POLLIN ELSE POLLOUT,
                               revents |-> 0]]

(* Uninitialised pollfd storage, as realloc(NULL, ...) returns it: a block *)
(* of n entries that all hold one of these values (zeroes, or what looks   *)
(* like a ready entry for libusb's first descriptor).                      *)
Garbage == { [fd |-> 0, events |-> 0, revents |-> 0],
             [fd |-> 3, events |-> POLLIN, revents |-> POLLIN] }

GarbageBlocks(n) == { [i \in 1..n |-> e] : e \in Garbage }

----------------------------------------------------------------------------
Init ==
    /\ h = "none" /\ cb = FALSE /\ quit = 0
    /\ transfer = "NULL" /\ xfer = "none"
    /\ usb_devh = "none" /\ claimed = FALSE /\ leak = NoLeak
    /\ pfd = <<>> /\ pfdNull = TRUE /\ n_usb_pfd = 0 /\ n_pfd = 0
    /\ pc = "idle" /\ op = "none" /\ ret = 0 /\ errno = 0
    /\ call = NoCall /\ intr = NoIntr /\ fatal = FALSE
    /\ sent = NoSent /\ clog = <<>>

----------------------------------------------------------------------------
(* hmcfgusb_init, lines 251-331, with hmcfgusb_find (93-140) and           *)
(* hmcfgusb_prepare_int (166-198) inlined.  The input f names the first    *)
(* step that fails ("none": every step succeeds).                          *)

InitOrder == << "libusb_init", "list", "open", "detach", "claim", "dev",
                "cb_data", "prepare", "pollfds", "pfd", "none" >>

StepNo(s) == CHOOSE i \in 1..Len(InitOrder) : InitOrder[i] = s

(* Step s was executed successfully when the first failure is f. *)
Passed(s, f) == StepNo(s) < StepNo(f)

(* What a hmcfgusb_init that fails at step f leaves acquired: every error  *)
(* path is a bare "return NULL" (only line 302 frees dev), so whatever was *)
(* acquired before the failing step stays acquired.                        *)
InitLeak(f) == [conn  |-> Passed("open", f),
                claim |-> Passed("claim", f),
                xfer  |-> Passed("prepare", f)]

InitInputs == { i \in [cbGiven : BOOLEAN, f : {InitOrder[k] : k \in 1..Len(InitOrder)},
                       n : UsbCounts] :
                  i.f # "none" => ~i.cbGiven /\ i.n = 1 }

(* Fault: the flag survives a successful open. *)
InitQuit_Keeps(q) == q

(* quit after a successful hmcfgusb_init, line 328. *)
InitQuit(q) == 0

(* The caller opens again after a close or after a failed open that left   *)
(* nothing acquired; leak is written here and read by no operation.        *)
hmcfgusb_init ==
    /\ h \in {"none", "closed"}
    /\ pc = "idle"
    /\ leak = NoLeak
    /\ \E i \in InitInputs :
         IF i.f = "none"
         THEN /\ h' = "open"
              /\ cb' = i.cbGiven
              /\ usb_devh' = "open"
              /\ claimed' = TRUE
              /\ transfer' = "PTR"
              /\ xfer' = "submitted"
              /\ n_usb_pfd' = i.n
              /\ pfd' = UsbPfds(i.n)
              /\ pfdNull' = FALSE
              /\ n_pfd' = i.n
              /\ quit' = InitQuit(quit)
              /\ ret' = 1
              /\ fatal' = FALSE
              /\ UNCHANGED leak
         ELSE /\ leak' = InitLeak(i.f)
              /\ ret' = 0
              /\ UNCHANGED <<h, cb, usb_devh, claimed, transfer, xfer, n_usb_pfd,
                             pfd, pfdNull, n_pfd, quit, fatal>>
    /\ op' = "init"
    /\ call' = NoCall /\ intr' = NoIntr
    /\ sent' = NoSent
    /\ UNCHANGED <<pc, errno, clog>>

----------------------------------------------------------------------------
(* hmcfgusb_add_pfd, lines 333-347.  ok: realloc succeeds.  g: the         *)
(* contents of the fresh block realloc(NULL, ...) returns after an earlier *)
(* failure set dev->pfd to NULL (uninitialised storage).                   *)

ReallocPfd(p, isNull, ok, g) ==
    IF ~ok THEN <<>>
    ELSE IF isNull THEN g
    ELSE p

AddPfdEntry(p, fd, events) == Append(p, [fd |-> fd, events |-> events, revents |-> 0])

hmcfgusb_add_pfd ==
    /\ h = "open"
    /\ pc = "idle"
    /\ n_pfd < MaxPfd
    /\ \E e \in {ExtPfd(n_pfd + 1 - n_usb_pfd)}, ok \in BOOLEAN :
         \E g \in (IF ok /\ pfdNull THEN GarbageBlocks(n_pfd) ELSE {<<>>}) :
            /\ n_pfd' = n_pfd + 1
            /\ pfdNull' = ~ok
            /\ pfd' = IF ok THEN AddPfdEntry(ReallocPfd(pfd, pfdNull, ok, g), e.fd, e.events)
                      ELSE ReallocPfd(pfd, pfdNull, ok, g)
            /\ ret' = IF ok THEN 1 ELSE 0
    /\ op' = "add_pfd"
    /\ call' = NoCall /\ intr' = NoIntr
    /\ sent' = NoSent /\ clog' = <<>>
    /\ UNCHANGED <<h, cb, quit, transfer, xfer, usb_devh, claimed, leak, n_usb_pfd,
                   pc, errno, fatal>>

----------------------------------------------------------------------------
(* hmcfgusb_send, lines 142-164.  r1, r2: the two libusb_interrupt_transfer *)
(* calls succeed.                                                          *)

SendTransfers(len, done, r1) == IF r1 /\ done THEN <<len, 0>> ELSE <<len>>

(* The results of the transfers issued, in order. *)
SendOutcomes(done, r1, r2) == IF r1 /\ done THEN <<r1, r2>> ELSE <<r1>>

(* Fault: the result of the zero-length transfer is not looked at. *)
SendResult_IgnoresTerminator(done, r1, r2) == IF ~r1 THEN 0 ELSE 1

SendResult(done, r1, r2) == IF ~r1 THEN 0 ELSE IF done /\ ~r2 THEN 0 ELSE 1

(* Fault: a failed send latches the quit flag. *)
SendQuit_Latches(q, res) == IF res = 0 THEN EIO ELSE q

(* quit after hmcfgusb_send: both error paths (lines 150-153, 157-160)     *)
(* print and return 0, neither assigns quit.                               *)
SendQuit(q, res) == q

hmcfgusb_send ==
    /\ h = "open"
    /\ pc = "idle"
    /\ \E len \in Lens, done \in BOOLEAN, r1 \in BOOLEAN, r2 \in BOOLEAN :
         /\ (~(r1 /\ done) => r2)
         /\ sent' = [len |-> len, done |-> done,
                     xfers |-> SendTransfers(len, done, r1),
                     oks |-> SendOutcomes(done, r1, r2)]
         /\ ret' = SendResult(done, r1, r2)
         /\ quit' = SendQuit(quit, SendResult(done, r1, r2))
    /\ op' = "send"
    /\ call' = NoCall /\ intr' = NoIntr
    /\ clog' = <<>>
    /\ UNCHANGED <<h, cb, transfer, xfer, usb_devh, claimed, leak, pfd, pfdNull,
                   n_usb_pfd, n_pfd, pc, errno, fatal>>

----------------------------------------------------------------------------
(* hmcfgusb_poll, lines 349-419.                                           *)

(* tv after lines 360-373.  nt is libusb_get_next_timeout's result (1: a   *)
(* timer is pending and libtv is its remaining time; 0: none pending).     *)
NextTimeout(nt, libtv, timeout) ==
    IF nt = 0 THEN [sec |-> timeout, usec |-> 0] ELSE libtv

(* Fault: a pending timer with no time left is not noticed. *)
TimerDue_Never(nt, tv) == FALSE

(* usb_event after lines 366-373: a pending timer with no time left. *)
TimerDue(nt, tv) == nt > 0 /\ tv.sec = 0 /\ tv.usec = 0

(* The wait bound handed to poll(), in milliseconds (line 380). *)
WaitBound(tv) == tv.sec * 1000

(* Lines 376-378. *)
ClearRevents(p) == [i \in 1..Len(p) |-> [p[i] EXCEPT !.revents = 0]]

(* poll() itself: it writes the readiness of every entry; an entry that is *)
(* ready reports its interest mask, or POLLERR when it asked for nothing.  *)
PollWrites(p, ready) ==
    [i \in 1..Len(p) |->
        [p[i] EXCEPT !.revents = IF i \in ready
                                 THEN (IF p[i].events = 0 THEN POLLERR ELSE p[i].events)
                                 ELSE 0]]

(* The scan of lines 388-398 from index k on: the first entry with a       *)
(* nonzero revents decides.  "usb": internal servicing, "fd": return the   *)
(* entry's descriptor, "none": no entry has revents set.                   *)
RECURSIVE ScanFrom(_, _, _)
ScanFrom(p, nusb, k) ==
    IF k > Len(p) THEN [kind |-> "none", fd |-> -1]
    ELSE IF p[k].revents # 0
         THEN (IF k <= nusb THEN [kind |-> "usb", fd |-> -1]
                            ELSE [kind |-> "fd", fd |-> p[k].fd])
         ELSE ScanFrom(p, nusb, k + 1)

(* Fault: the boundary test is "fd_n < n_usb_pfd - 1". *)
ScanRevents_OffByOne(p, nusb) == ScanFrom(p, nusb - 1, 1)

(* Fault: a ready caller-registered entry wins over a ready internal one. *)
ScanRevents_ExtFirst(p, nusb) ==
    IF \E k \in (nusb + 1)..Len(p) : p[k].revents # 0
    THEN LET k == CHOOSE j \in (nusb + 1)..Len(p) :
                     /\ p[j].revents # 0
                     /\ \A m \in (nusb + 1)..(j - 1) : p[m].revents = 0
         IN  [kind |-> "fd", fd |-> p[k].fd]
    ELSE ScanFrom(p, nusb, 1)

ScanRevents(p, nusb) == ScanFrom(p, nusb, 1)

(* Fault: internal servicing runs whatever the scan found. *)
UsbEvent_Always(n, kind) == TRUE

(* usb_event after lines 385-399: poll() reported nothing ready (n = 0),   *)
(* or the scan stopped at an internal entry.                               *)
UsbEvent(n, kind) == n = 0 \/ kind = "usb"

(* The value returned from inside the scan (line 395), -1 when the scan    *)
(* did not return (line 418).                                              *)
ScanReturn(scan) == IF scan.kind = "fd" THEN scan.fd ELSE -1

(* Fault: the flag is not copied to errno. *)
FinalErrno_Zero(q) == 0

(* errno at lines 412-416. *)
FinalErrno(q) == IF q # 0 THEN q ELSE 0

(* errno after poll() failed, lines 381-384. *)
PollFailErrno == 0

(* The caller's timeout and libusb_get_next_timeout's answer.  The timeout *)
(* is read only when nt = 0 (line 368) and libtv is set only when nt = 1.  *)
TimerInputs ==
    {[timeout |-> 0, nt |-> -1, libtv |-> [sec |-> 0, usec |-> 0]]}
    \cup {[timeout |-> t, nt |-> 0, libtv |-> [sec |-> 0, usec |-> 0]] : t \in Timeouts}
    \cup {[timeout |-> 0, nt |-> 1, libtv |-> tv] : tv \in Tvs}

(* What poll() answers: an error, or the set of ready entries. *)
PollAnswers(polls) ==
    IF polls
    THEN {[perr |-> TRUE, ready |-> {}]}
         \cup {[perr |-> FALSE, ready |-> r] : r \in SUBSET (1..Len(pfd))}
    ELSE {[perr |-> FALSE, ready |-> {}]}

hmcfgusb_poll ==
    /\ h = "open"
    /\ pc = "idle"
    /\ \E t \in TimerInputs :
       \E a \in PollAnswers(t.nt >= 0 /\ ~pfdNull
                              /\ ~TimerDue(t.nt, NextTimeout(t.nt, t.libtv, t.timeout))) :
         LET i      == [timeout |-> t.timeout, nt |-> t.nt, libtv |-> t.libtv,
                        perr |-> a.perr, ready |-> a.ready]
             tv     == NextTimeout(i.nt, i.libtv, i.timeout)
             due    == TimerDue(i.nt, tv)
             polls  == i.nt >= 0 /\ ~due
             polled == PollWrites(ClearRevents(pfd), i.ready)
             scan   == ScanRevents(polled, n_usb_pfd)
             c      == [timeout |-> i.timeout, nt |-> i.nt, tv |-> tv,
                        polled |-> polls /\ ~pfdNull,
                        bound |-> IF polls THEN WaitBound(tv) ELSE 0,
                        perr |-> i.perr, he |-> 0,
                        quit0 |-> quit,
                        stale |-> \E k \in 1..Len(pfd) :
                                     /\ k > n_usb_pfd
                                     /\ pfd[k].revents # 0
                                     /\ k \notin i.ready]
         IN  /\ call' = c
             /\ IF i.nt < 0
                THEN \* lines 362-365
                     /\ errno' = EIO /\ ret' = -1
                     /\ UNCHANGED <<h, pc, pfd>>
                ELSE IF due
                THEN \* line 371: straight to the servicing of line 402
                     /\ pc' = "events"
                     /\ errno' = 0 /\ ret' = -1
                     /\ UNCHANGED <<h, pfd>>
                ELSE IF pfdNull
                THEN \* line 377 writes through a NULL dev->pfd
                     /\ h' = "crashed"
                     /\ UNCHANGED <<pc, ret, errno, pfd>>
                ELSE IF i.perr
                THEN \* lines 381-384
                     /\ pfd' = ClearRevents(pfd)
                     /\ errno' = PollFailErrno /\ ret' = -1
                     /\ UNCHANGED <<h, pc>>
                ELSE \* lines 385-399, then 402 or 412-418
                     /\ pfd' = polled
                     /\ pc' = IF UsbEvent(Cardinality(i.ready), scan.kind)
                              THEN "events" ELSE "idle"
                     /\ ret' = ScanReturn(scan)
                     /\ errno' = IF UsbEvent(Cardinality(i.ready), scan.kind)
                                    \/ scan.kind = "fd"
                                 THEN 0 ELSE FinalErrno(quit)
                     /\ UNCHANGED h
    /\ op' = "poll"
    /\ intr' = NoIntr
    /\ sent' = NoSent /\ clog' = <<>>
    /\ UNCHANGED <<cb, quit, transfer, xfer, usb_devh, claimed, leak, pfdNull,
                   n_usb_pfd, n_pfd, fatal>>

----------------------------------------------------------------------------
(* hmcfgusb_interrupt, lines 206-249: the completion callback of the       *)
(* receive transfer, run by libusb_handle_events_timeout_completed.        *)
(* status: transfer->status; len: transfer->actual_length; cbres: what the *)
(* consumer callback returns; subres: libusb_submit_transfer succeeds.     *)

(* Lines 213-214. *)
IsFatalStatus(status) == status # "COMPLETED" /\ status # "TIMED_OUT"

(* Fault: the callback is invoked whatever the completion status. *)
InvokesCallback_AnyStatus(status, hascb) == hascb

(* Lines 224-225. *)
InvokesCallback(status, hascb) == status = "COMPLETED" /\ hascb

(* Fault: the test of the callback's result is inverted. *)
CallbackRejects_Inverted(invoked, cbres) == invoked /\ cbres

(* Line 229. *)
CallbackRejects(invoked, cbres) == invoked /\ ~cbres

(* Fault: the fatal path falls through to the resubmission of line 244. *)
ReleaseTransfer_FallsThrough(slot, x) ==
    [slot |-> slot, x |-> "submitted", log |-> <<"submit">>]

(* Lines 218-221 and 232-235: free the handle's transfer and clear the slot. *)
ReleaseTransfer(slot, x) ==
    IF slot = "PTR" THEN [slot |-> "NULL", x |-> "freed", log |-> <<"free">>]
    ELSE [slot |-> slot, x |-> "idle", log |-> <<>>]

(* Fault: the handler returns without resubmitting. *)
Resubmit_Dropped(slot, subres) == [slot |-> slot, x |-> "idle", log |-> <<>>]

(* Lines 244-248: resubmit; on failure free the transfer, nothing else. *)
Resubmit(slot, subres) ==
    IF subres THEN [slot |-> slot, x |-> "submitted", log |-> <<"submit">>]
    ELSE [slot |-> slot, x |-> "freed", log |-> <<"submit", "free">>]

(* quit after the fatal paths, lines 216 and 230. *)
QuitOnFatal(q) == EIO

IntrInputs ==
    { i \in [status : Statuses, len : Lens, cbres : BOOLEAN, subres : BOOLEAN] :
        /\ (i.status # "COMPLETED" => i.len = 0)
        /\ (~InvokesCallback(i.status, cb) => i.cbres)
        /\ (IsFatalStatus(i.status) \/ ~i.cbres => i.subres) }

hmcfgusb_interrupt ==
    /\ pc = "events"
    /\ xfer = "submitted"
    /\ \E i \in IntrInputs :
         LET invoked == InvokesCallback(i.status, cb)
             dead    == IsFatalStatus(i.status) \/ CallbackRejects(invoked, i.cbres)
             r       == IF dead THEN ReleaseTransfer(transfer, xfer)
                        ELSE Resubmit(transfer, i.subres)
         IN  /\ quit' = IF dead THEN QuitOnFatal(quit) ELSE quit
             /\ transfer' = r.slot
             /\ xfer' = r.x
             /\ intr' = [status |-> i.status,
                         touts |-> IF i.status # "TIMED_OUT" THEN 0
                                   ELSE IF intr.touts < MaxTouts THEN intr.touts + 1
                                   ELSE MaxTouts,
                         len |-> i.len, cbres |-> i.cbres, subres |-> i.subres,
                         log |-> (IF invoked THEN <<"cb">> ELSE <<>>) \o r.log,
                         cblen |-> IF invoked THEN i.len ELSE -1,
                         quit0 |-> quit]
             /\ fatal' = (fatal \/ dead \/ ~i.subres)
    /\ UNCHANGED <<h, cb, usb_devh, claimed, leak, pfd, pfdNull, n_usb_pfd, n_pfd,
                   pc, op, ret, errno, call, sent, clog>>

(* Lines 404-418: libusb_handle_events_timeout_completed returns he and    *)
(* hmcfgusb_poll returns.                                                  *)
handle_events_return ==
    /\ pc = "events"
    /\ \E he \in {-1, 0} :
         /\ call' = [call EXCEPT !.he = he]
         /\ errno' = IF he < 0 THEN EIO ELSE FinalErrno(quit)
    /\ ret' = -1
    /\ pc' = "idle"
    /\ intr' = NoIntr
    /\ UNCHANGED <<h, cb, quit, transfer, xfer, usb_devh, claimed, leak, pfd, pfdNull,
                   n_usb_pfd, n_pfd, op, fatal, sent, clog>>

----------------------------------------------------------------------------
(* hmcfgusb_close, lines 421-439.  Cancelling a transfer that was already  *)
(* freed is a use after free: the call may crash the process or return.    *)

CloseCalls(slot) ==
    (IF slot = "PTR" THEN <<"cancel">> ELSE <<>>)
        \o <<"release", "close", "free_pfd", "free_dev", "exit">>

hmcfgusb_close ==
    /\ h = "open"
    /\ pc = "idle"
    /\ \E crash \in (IF transfer = "PTR" /\ xfer = "freed" THEN BOOLEAN ELSE {FALSE}) :
         IF crash
         THEN /\ h' = "crashed"
              /\ clog' = <<"cancel">>
              /\ UNCHANGED <<transfer, xfer, usb_devh, claimed, pfd, pfdNull,
                             n_usb_pfd, n_pfd>>
         ELSE /\ h' = "closed"
              /\ clog' = CloseCalls(transfer)
              /\ xfer' = IF transfer = "PTR" /\ xfer = "submitted" THEN "cancelled" ELSE xfer
              /\ transfer' = "NULL"
              /\ usb_devh' = "closed"
              /\ claimed' = FALSE
              /\ pfd' = <<>> /\ pfdNull' = TRUE
              /\ n_usb_pfd' = 0 /\ n_pfd' = 0
    /\ op' = "close"
    /\ call' = NoCall /\ intr' = NoIntr
    /\ sent' = NoSent
    /\ UNCHANGED <<cb, quit, leak, pc, ret, errno, fatal>>

----------------------------------------------------------------------------
Next ==
    \/ hmcfgusb_init
    \/ hmcfgusb_add_pfd
    \/ hmcfgusb_send
    \/ hmcfgusb_poll
    \/ hmcfgusb_interrupt
    \/ handle_events_return
    \/ hmcfgusb_close

Spec == Init /\ [][Next]_vars

----------------------------------------------------------------------------
(* Properties *)

Armed == xfer = "submitted" /\ transfer = "PTR"

(* hmcfgusb_poll has returned (and the process is alive). *)
PollReturned == h = "open" /\ op = "poll" /\ pc = "idle"

(* hmcfgusb_interrupt has run in the current libusb_handle_events call and *)
(* intr describes its last run.                                            *)
Interrupted == pc = "events" /\ intr.status # "none"

(* C1: from a successful hmcfgusb_init until the first fatal cause (a bad  *)
(* completion status, a rejecting callback, a refused resubmission) or     *)
(* hmcfgusb_close, the handle's one receive transfer is submitted and held *)
(* by dev->transfer, whatever poll, send and add_pfd calls were made.      *)
C1_OneOutstanding == (h = "open" /\ ~fatal) => Armed

C1_Witness ==
    /\ h = "open" /\ ~fatal /\ Armed
    /\ pc = "events" /\ intr.touts >= 2
    /\ Len(pfd) > n_usb_pfd

(* C2 as claimed: each fatal cause sets quit, frees the transfer and       *)
(* clears dev->transfer.  Refuted by the refused resubmission of lines     *)
(* 244-248, which only frees the transfer.                                 *)
C2_FatalLatches ==
    (Interrupted /\ (IsFatalStatus(intr.status) \/ ~intr.cbres \/ ~intr.subres))
        => (quit # 0 /\ transfer = "NULL" /\ xfer # "submitted")

(* The first ready entry of the list, in index order, is caller-registered. *)
ExtReadyFirst ==
    \E k \in (n_usb_pfd + 1)..Len(pfd) :
        /\ pfd[k].revents # 0
        /\ \A j \in 1..(k - 1) : pfd[j].revents = 0

(* C3 as claimed, on the rounds in which poll() reported readiness: with   *)
(* quit set at entry, the call returns -1 with errno = quit whatever was   *)
(* ready.  Refuted by a ready caller-registered descriptor.                *)
C3_AlwaysFailure ==
    (PollReturned /\ call.quit0 # 0 /\ call.polled /\ ~call.perr)
        => (ret = -1 /\ errno = call.quit0)

(* C3 amended: a hmcfgusb_poll entered with quit set and returning gives   *)
(* -1 with errno = quit, except that a caller-registered descriptor found  *)
(* ready first is returned instead (errno 0), and that a failing poll()    *)
(* gives -1 with errno 0.                                                  *)
C3_FailureSurfaced ==
    (PollReturned /\ call.quit0 # 0) =>
        IF call.polled /\ call.perr THEN ret = -1 /\ errno = 0
        ELSE IF call.polled /\ ExtReadyFirst THEN ret # -1 /\ errno = 0
        ELSE ret = -1 /\ errno = call.quit0

C3_Witness ==
    /\ PollReturned /\ call.quit0 # 0
    /\ call.polled /\ ~call.perr /\ ~ExtReadyFirst
    /\ \E k \in 1..Len(pfd) : pfd[k].revents # 0
    /\ ret = -1 /\ errno = EIO

(* C4: once quit is nonzero, no step other than a successful hmcfgusb_init *)
(* makes it zero, and every run of hmcfgusb_interrupt that invokes the     *)
(* callback starts with quit = 0.                                          *)
C4_QuitSticks ==
    [][ /\ (quit # 0 /\ quit' = 0) => (op' = "init" /\ ret' = 1)
        /\ (Interrupted' /\ intr'.cblen # -1) => intr'.quit0 = 0 ]_vars

C4_Witness ==
    /\ h = "open" /\ pc = "events"
    /\ quit # 0 /\ call.quit0 # 0
    /\ Len(pfd) > n_usb_pfd

(* C5: a timed-out completion does not invoke the callback, leaves quit    *)
(* as it was and resubmits the transfer: the engine stays armed when       *)
(* libusb accepts the resubmission (its refusal is fatal cause (c) of C2), *)
(* also when the completion before it timed out as well.                   *)
C5_TimeoutBenign ==
    (Interrupted /\ intr.status = "TIMED_OUT") =>
        /\ intr.cblen = -1
        /\ quit = intr.quit0
        /\ Len(intr.log) >= 1 /\ intr.log[1] = "submit"
        /\ (intr.subres => Armed)
        /\ transfer = "PTR"

C5_Witness ==
    /\ Interrupted /\ intr.status = "TIMED_OUT" /\ intr.touts >= 2
    /\ cb /\ Armed /\ quit = 0

(* The poll() of this call reported readiness (it ran and did not fail).   *)
PollReported == call.polled /\ ~call.perr

ExtReady(k) == k \in (n_usb_pfd + 1)..Len(pfd) /\ pfd[k].revents # 0

UsbReady(k) == k \in 1..n_usb_pfd /\ k <= Len(pfd) /\ pfd[k].revents # 0

(* C6 as claimed: a caller-registered descriptor that poll() reports ready *)
(* is returned by that call, also when an internal descriptor is ready in  *)
(* the same result.  Refuted: the scan of lines 388-398 stops at the first *)
(* ready entry, and the internal entries come first.                       *)
C6_ExtAlwaysWins ==
    (PollReturned /\ PollReported /\ \E k \in 1..Len(pfd) : ExtReady(k))
        => \E k \in 1..Len(pfd) : ExtReady(k) /\ ret = pfd[k].fd

(* C6 amended: when poll() reports a caller-registered descriptor ready    *)
(* and no internal one, the call returns the identifier of the first ready *)
(* caller-registered entry, with errno 0; when an internal descriptor is   *)
(* ready too, the call does the internal servicing and returns -1.         *)
C6_ExtWinsUnlessUsbReady ==
    (PollReturned /\ PollReported /\ \E k \in 1..Len(pfd) : ExtReady(k)) =>
        IF \E j \in 1..Len(pfd) : UsbReady(j)
        THEN ret = -1
        ELSE /\ errno = 0
             /\ \E k \in 1..Len(pfd) :
                    /\ ExtReady(k)
                    /\ \A m \in 1..(k - 1) : ~ExtReady(m)
                    /\ ret = pfd[k].fd

C6_Witness ==
    /\ PollReturned /\ PollReported
    /\ ~pfdNull /\ pfd[1] = UsbPfds(1)[1]
    /\ Len(pfd) = n_usb_pfd + 2
    /\ ExtReady(n_usb_pfd + 1) /\ ExtReady(n_usb_pfd + 2)
    /\ pfd[n_usb_pfd + 1].fd # pfd[n_usb_pfd + 2].fd
    /\ ret = pfd[n_usb_pfd + 1].fd

(* C7: a descriptor returned by hmcfgusb_poll is taken from an entry of    *)
(* the caller-registered segment (index > n_usb_pfd) whose revents the     *)
(* poll() of this call set; it is never taken from an internal entry (no   *)
(* entry before it, so no internal one, is ready) nor from a round in      *)
(* which poll() was skipped or failed.                                     *)
C7_ReturnsOnlyReadyExt ==
    (PollReturned /\ ret # -1) =>
        /\ PollReported
        /\ \E k \in 1..Len(pfd) :
               /\ ExtReady(k)
               /\ pfd[k].fd = ret
               /\ \A j \in 1..(k - 1) : pfd[j].revents = 0

C7_Witness ==
    /\ PollReturned /\ ret # -1
    /\ call.stale
    /\ pfd[1] = UsbPfds(1)[1]
    /\ \E k \in 1..Len(pfd) : k > n_usb_pfd /\ pfd[k].revents = 0 /\ pfd[k].fd # ret

(* C8 as claimed: a failing poll() or a failing                            *)
(* libusb_handle_events_timeout_completed makes the call return at once    *)
(* with a failure the caller can tell from NoEvent (-1, errno 0).  Refuted *)
(* by lines 381-384, which set errno to 0 before returning -1.             *)
C8_ErrorsAreFailures ==
    (PollReturned /\ (call.perr \/ call.he < 0)) =>
        /\ ret = -1 /\ errno # 0
        /\ (call.perr => intr = NoIntr)

(* C9 as claimed: a hmcfgusb_add_pfd call keeps every earlier entry in     *)
(* place, appends the new one and leaves n_usb_pfd alone.  Refuted by the  *)
(* failing realloc of lines 336-340, which leaves dev->pfd NULL.           *)
C9_AppendOnly ==
    [][ (op' = "add_pfd" /\ n_pfd' = n_pfd + 1) =>
          /\ Len(pfd') = Len(pfd) + 1
          /\ \A k \in 1..Len(pfd) :
                pfd'[k].fd = pfd[k].fd /\ pfd'[k].events = pfd[k].events
          /\ n_usb_pfd' = n_usb_pfd ]_vars

(* C10: a successful completion with a callback registered gives the       *)
(* callback the buffer with its length before anything else; when the      *)
(* callback accepts, the transfer is resubmitted next, quit is 0, the      *)
(* engine is armed when libusb accepts the resubmission, and the           *)
(* hmcfgusb_poll that handled it returns -1 with errno 0 unless            *)
(* libusb_handle_events_timeout_completed itself fails.                    *)
C10_AcceptedBuffer ==
    [][ /\ (Interrupted' /\ intr'.status = "COMPLETED" /\ cb) =>
              /\ intr'.cblen = intr'.len
              /\ Len(intr'.log) >= 1 /\ intr'.log[1] = "cb"
              /\ intr'.cbres =>
                    /\ Len(intr'.log) >= 2 /\ intr'.log[2] = "submit"
                    /\ quit' = 0
                    /\ (intr'.subres => Armed')
        /\ (pc = "events" /\ pc' = "idle" /\ intr.status = "COMPLETED" /\ cb
               /\ intr.cbres /\ call'.he = 0) =>
              (ret' = -1 /\ errno' = 0) ]_vars

C10_Witness ==
    /\ Interrupted /\ intr.status = "COMPLETED" /\ cb
    /\ intr.cbres /\ intr.subres /\ intr.len = 12 /\ intr.cblen = 12
    /\ Armed /\ quit = 0

(* C11: a hmcfgusb_poll call that returns a caller-registered descriptor   *)
(* ends in the step that found it: it does not enter                       *)
(* libusb_handle_events_timeout_completed, so hmcfgusb_interrupt and the   *)
(* callback do not run, and quit, dev->transfer and the transfer's state   *)
(* are what they were before the call.                                     *)
C11_ExtReturnNoServicing ==
    [][ (pc = "idle" /\ op' = "poll" /\ h' = "open" /\ ret' # -1) =>
          /\ pc' = "idle"
          /\ intr' = NoIntr
          /\ quit' = quit /\ quit' = call'.quit0
          /\ transfer' = transfer /\ xfer' = xfer
          /\ fatal' = fatal ]_vars

C11_Witness ==
    /\ PollReturned /\ ret = ExtPfd(1).fd
    /\ cb /\ Armed /\ quit = 0
    /\ call.nt = 1 /\ call.polled /\ intr = NoIntr

(* C12: hmcfgusb_send returns 1 exactly when every transfer it issued      *)
(* succeeded.  It issues the buffer with the given length; with done set   *)
(* and that transfer successful it then issues one zero-length transfer;   *)
(* it issues nothing after a failed transfer and repeats none.             *)
C12_SendAllOrNothing ==
    (h = "open" /\ op = "send") =>
        /\ ret \in {0, 1}
        /\ (ret = 1) <=> (\A k \in 1..Len(sent.oks) : sent.oks[k])
        /\ Len(sent.oks) = Len(sent.xfers)
        /\ sent.xfers = IF sent.done /\ sent.oks[1] THEN <<sent.len, 0>>
                        ELSE <<sent.len>>
        /\ \A k \in 1..(Len(sent.oks) - 1) : sent.oks[k]

C12_Witness ==
    /\ h = "open" /\ op = "send"
    /\ sent.done /\ sent.len = 12
    /\ sent.xfers = <<12, 0>> /\ sent.oks = <<TRUE, FALSE>>
    /\ ret = 0

(* C13: a hmcfgusb_send step, whatever it returns, changes neither quit    *)
(* nor the receive transfer and its slot nor the pollfd list and its       *)
(* counts nor the handle's connection: everything a following              *)
(* hmcfgusb_poll reads is as it was before the send.                       *)
C13_SendFrame ==
    [][ (pc = "idle" /\ op' = "send") =>
          /\ quit' = quit
          /\ transfer' = transfer /\ xfer' = xfer /\ fatal' = fatal
          /\ pfd' = pfd /\ pfdNull' = pfdNull
          /\ n_pfd' = n_pfd /\ n_usb_pfd' = n_usb_pfd
          /\ h' = h /\ cb' = cb /\ usb_devh' = usb_devh /\ claimed' = claimed
          /\ pc' = pc ]_vars

C13_Witness ==
    /\ h = "open" /\ op = "send" /\ ret = 0
    /\ sent.oks = <<FALSE>>
    /\ Armed /\ quit = 0 /\ ~fatal
    /\ Len(pfd) > n_usb_pfd

(* C14: when hmcfgusb_init returns a handle, the handle's transfer is      *)
(* submitted and held by dev->transfer, quit is 0 (also when the previous  *)
(* handle was closed with quit latched), n_pfd = n_usb_pfd and dev->pfd    *)
(* holds exactly libusb's descriptors, in libusb's order, with revents 0.  *)
C14_StateAtOpen ==
    (op = "init" /\ ret = 1) =>
        /\ h = "open" /\ Armed /\ ~fatal
        /\ usb_devh = "open" /\ claimed
        /\ quit = 0
        /\ n_usb_pfd \in UsbCounts /\ n_pfd = n_usb_pfd
        /\ ~pfdNull /\ pfd = UsbPfds(n_usb_pfd)

(* The previous handle was closed with an empty slot, that is after a      *)
(* fatal cause had set quit to EIO and a hmcfgusb_poll had reported it.    *)
C14_Witness ==
    /\ op = "init" /\ ret = 1 /\ h = "open"
    /\ clog = CloseCalls("NULL") /\ errno = EIO
    /\ quit = 0 /\ n_usb_pfd = 2

(* The call c found a pending libusb timer with exactly zero time left. *)
ZeroTimer(c) == c.nt > 0 /\ c.tv = [sec |-> 0, usec |-> 0]

(* C15: when libusb_get_next_timeout reports a pending timer with zero     *)
(* remaining time, the call does not run poll(): dev->pfd, revents         *)
(* included, is left as it was and no descriptor is returned; the call     *)
(* enters libusb_handle_events_timeout_completed at once and, when that    *)
(* returns without error, returns -1 with errno = quit if quit is set and  *)
(* errno = 0 otherwise.                                                    *)
C15_ZeroTimerSkipsPoll ==
    [][ /\ (pc = "idle" /\ op' = "poll" /\ ZeroTimer(call')) =>
              /\ pc' = "events"
              /\ ~call'.polled
              /\ pfd' = pfd
              /\ ret' = -1
        /\ (pc = "events" /\ pc' = "idle" /\ ZeroTimer(call)) =>
              /\ pfd' = pfd
              /\ ret' = -1
              /\ call'.he = 0 => errno' = (IF quit' # 0 THEN quit' ELSE 0) ]_vars

(* A call with a due timer has returned, after a completion in it set      *)
(* quit, and a readiness mask of an earlier round is still in the list.    *)
C15_Witness ==
    /\ PollReturned /\ ZeroTimer(call) /\ ~call.polled
    /\ call.he = 0 /\ call.quit0 = 0 /\ quit = EIO
    /\ ret = -1 /\ errno = EIO
    /\ \E k \in 1..Len(pfd) : pfd[k].revents # 0

(* C16 as claimed: the bound handed to poll() is the caller's timeout      *)
(* (seconds) when no libusb timer is pending, and the timer's remaining    *)
(* time when one is pending with time left, also below one second; in      *)
(* milliseconds, the unit of poll().  Refuted by line 380, which passes    *)
(* tv.tv_sec * 1000 and drops tv.tv_usec: a remaining time of 0.5 s gives  *)
(* a bound of 0.                                                           *)
C16_WaitBound ==
    (op = "poll" /\ call.nt >= 0 /\ ~ZeroTimer(call)) =>
        call.bound = IF call.nt = 0 THEN call.timeout * 1000
                     ELSE call.tv.sec * 1000 + (call.tv.usec \div 1000)

(* C17 as claimed: hmcfgusb_close cancels the transfer first when one is   *)
(* outstanding, then releases the interface, closes the connection, frees  *)
(* dev->pfd and dev and leaves libusb; when the engine is dead and its     *)
(* transfer was already freed, it makes the same calls without the cancel. *)
(* Refuted after a refused resubmission (C18): the transfer is freed,      *)
(* dev->transfer still points at it, and close cancels it.                 *)
C17_CloseOrder ==
    [][ (pc = "idle" /\ h = "open" /\ op' = "close") =>
          /\ h' = "closed"
          /\ clog' = IF xfer = "submitted"
                     THEN <<"cancel", "release", "close", "free_pfd", "free_dev", "exit">>
                     ELSE <<"release", "close", "free_pfd", "free_dev", "exit">>
          /\ usb_devh' = "closed" /\ ~claimed'
          /\ xfer' # "submitted" ]_vars

(* C18 as claimed: dev->transfer is NULL or points at a transfer that has  *)
(* not been freed, in every state, and hmcfgusb_close never cancels a      *)
(* freed transfer.  Refuted by lines 244-248: a refused resubmission frees *)
(* the transfer and leaves dev->transfer pointing at it.                   *)
C18_SlotNeverDangling ==
    /\ (transfer = "PTR" => xfer # "freed")
    /\ (op = "close" /\ Len(clog) > 0 /\ clog[1] = "cancel") => xfer # "freed"

(* C19 as claimed: a hmcfgusb_add_pfd that returns 0 leaves the handle as  *)
(* it was: n_pfd is the number of entries stored, n_usb_pfd <= n_pfd, and  *)
(* the earlier entries are all there.  Refuted by lines 335-340: n_pfd is  *)
(* incremented before realloc and dev->pfd is overwritten with its NULL.   *)
C19_FailedAddKeepsHandle ==
    [][ (pc = "idle" /\ op' = "add_pfd" /\ ret' = 0) =>
          /\ n_pfd' = n_pfd /\ n_usb_pfd' = n_usb_pfd
          /\ pfd' = pfd /\ pfdNull' = pfdNull
          /\ Len(pfd') = n_pfd' /\ n_usb_pfd' <= n_pfd' ]_vars

(* C20 as claimed: a hmcfgusb_init that returns NULL leaves no connection  *)
(* open, no interface claimed and no transfer submitted.  Refuted: every   *)
(* error path after libusb_open is a bare return (lines 125, 131, 275,     *)
(* 284, 296, 303, 313).                                                    *)
C20_FailedOpenReleases ==
    (op = "init" /\ ret = 0) => (~leak.conn /\ ~leak.claim /\ ~leak.xfer)

====
